---- MODULE Spec2Model ----
(***************************************************************************)
(* Tic-tac-toe with a tabular Q-learning policy.                           *)
(*   train_tic_tac_toe.py   : board functions, the value table Q, its      *)
(*                            save/load, the self-play episode             *)
(*   tic_tac_toe_pygame.py  : the table loader, choose_best_action and the *)
(*                            interactive game loop                        *)
(*                                                                         *)
(* Conventions.  A board string is a sequence of 9 one-character strings,  *)
(* Python index a is TLA+ index a+1.  A float is an exact rational         *)
(* <<num, den>> in lowest terms with den > 0 (rounding of IEEE doubles is  *)
(* not modelled).  A Python dict is the sequence of its items in insertion *)
(* order.  Text that the code converts (str(action), int(action_str), the  *)
(* JSON form of a number) is a sequence of characters.                     *)
(***************************************************************************)
EXTENDS Integers, Sequences, FiniteSets, TLC

VARIABLES
    prog,            \* which program / entry point this behaviour runs
    Q,               \* the module-level value table (both files)
    arg_state,       \* board functions: the state argument of the call
    arg_action,      \* board functions: the action argument of the call
    arg_symbol,      \* board functions: the symbol argument of the call
    arg_reward,      \* update_q_value: the reward argument of the call
    arg_new_state,   \* update_q_value: the new_state argument of the call
    mouse_pos,       \* get_cell_index: the arguments <<mx, my>> of the call
    called,          \* board functions: name of the function called, or NotCalled
    ret,             \* board functions: <<value returned>>, <<>> before the call
    raised,          \* name of the exception the last call raised, or NoError
    epsilon,         \* play_one_game: its parameter
    state,           \* play_one_game: the local state
    current_symbol,  \* play_one_game / main (pygame): the symbol to move
    other_symbol,    \* play_one_game: the other symbol
    last_state,      \* play_one_game: last_state['X'], last_state['O']
    last_action,     \* play_one_game: last_action['X'], last_action['O']
    old_state,       \* play_one_game: the local old_state
    old_action,      \* play_one_game: the local old_action
    result,          \* play_one_game: <<value returned>>, <<>> while it runs
    Q0,              \* the table when play_one_game was called
    moves,           \* play_one_game: the half-moves played so far, in order
    updates,         \* play_one_game: the update_q_value calls made so far, in order
    episode,         \* main (training): the loop variable, episodes completed
    disk,            \* the content of q_table.json, or Missing
    ops,             \* save/load: the operations performed so far, in order
    preQ,            \* save/load: the table before the last operation
    savedQ,          \* save/load: the table the last save_q_table wrote
    pc,              \* main (pygame): the position in main
    board,           \* main (pygame): the list board
    game_over,       \* main (pygame)
    result_message,  \* main (pygame)
    running,         \* main (pygame)
    new_game_clicked, \* main (pygame): set in step 5 of the frame
    quit_clicked,    \* main (pygame): set in step 5 of the frame
    events           \* main (pygame): events of pygame.event.get() not yet handled

argVars == <<arg_reward, arg_new_state, mouse_pos>>
callVars == <<arg_state, arg_action, arg_symbol, called, ret, argVars>>
trainVars == <<epsilon, state, current_symbol, other_symbol, last_state,
               last_action, old_state, old_action, result, Q0, moves, updates,
               episode>>
storeVars == <<disk, ops, preQ, savedQ>>
uiVars == <<pc, board, game_over, result_message, running, new_game_clicked,
            quit_clicked, events>>
vars == <<prog, Q, raised, callVars, trainVars, storeVars, uiVars>>

\* Python's None, and a value that may be None, are <<>> and <<value>>
None == <<>>
Some(v) == <<v>>
NotCalled == "NotCalled"
NoError == "NoError"

Empty == " "
Symbols == {"X", "O"}
Cells == {Empty, "X", "O"}
Actions == 0..8

\* every 9-character string over ' ', 'X', 'O'
AllBoards == [1..9 -> Cells]

Count(st, ch) == Cardinality({i \in 1..Len(st) : st[i] = ch})

-----------------------------------------------------------------------------
(* Rational arithmetic standing for Python float arithmetic.               *)

RECURSIVE Gcd(_, _)
Gcd(a, b) == IF b = 0 THEN a ELSE Gcd(b, a % b)

Abs(n) == IF n < 0 THEN -n ELSE n

Norm(n, d) ==
    LET g == Gcd(Abs(n), Abs(d))
        s == IF d < 0 THEN -1 ELSE 1
    IN  <<(s * n) \div g, (s * d) \div g>>

Rat(n, d) == Norm(n, d)
Zero == Rat(0, 1)
RAdd(x, y) == Norm(x[1] * y[2] + y[1] * x[2], x[2] * y[2])
RSub(x, y) == Norm(x[1] * y[2] - y[1] * x[2], x[2] * y[2])
RMul(x, y) == Norm(x[1] * y[1], x[2] * y[2])
RLess(x, y) == x[1] * y[2] < y[1] * x[2]

-----------------------------------------------------------------------------
(* train_tic_tac_toe.py: TIC-TAC-TOE GAME LOGIC                            *)

initial_state == [i \in 1..9 |-> Empty]

\* [i for i, ch in enumerate(state_str) if ch == ' '], in increasing order
RECURSIVE AvailFrom(_, _)
AvailFrom(state_str, i) ==
    IF i > Len(state_str) THEN <<>>
    ELSE IF state_str[i] = Empty
         THEN <<i - 1>> \o AvailFrom(state_str, i + 1)
         ELSE AvailFrom(state_str, i + 1)

\* a variant that forgets the test ch == ' ' and lists every index
available_actions_unfiltered(state_str) == [i \in 1..Len(state_str) |-> i - 1]

available_actions(state_str) == AvailFrom(state_str, 1)

\* a variant that writes one cell to the right (wrapping)
next_state_shifted(state_str, action, symbol) ==
    [state_str EXCEPT ![((action + 1) % 9) + 1] = symbol]

\* lst = list(state_str); lst[action] = symbol; "".join(lst)
\* There is no test of the cell's content and no exception is raised.
next_state(state_str, action, symbol) ==
    [state_str EXCEPT ![action + 1] = symbol]

\* a variant whose second diagonal is mistyped
wins_mistyped ==
    << <<0,1,2>>, <<3,4,5>>, <<6,7,8>>,
       <<0,3,6>>, <<1,4,7>>, <<2,5,8>>,
       <<0,4,8>>, <<2,4,7>> >>

\* train_tic_tac_toe.py, check_winner: the list wins
wins ==
    << <<0,1,2>>, <<3,4,5>>, <<6,7,8>>,
       <<0,3,6>>, <<1,4,7>>, <<2,5,8>>,
       <<0,4,8>>, <<2,4,6>> >>

\* tic_tac_toe_pygame.py, check_winner: the list wins
pg_wins ==
    << <<0,1,2>>, <<3,4,5>>, <<6,7,8>>,
       <<0,3,6>>, <<1,4,7>>, <<2,5,8>>,
       <<0,4,8>>, <<2,4,6>> >>

\* a variant that forgets the test state_str[a] == symbol
RECURSIVE WinLoopAnyTriple(_, _, _, _)
WinLoopAnyTriple(w, state_str, symbol, i) ==
    IF i > Len(w) THEN FALSE
    ELSE LET a == w[i][1] + 1
             b == w[i][2] + 1
             c == w[i][3] + 1
         IN  IF /\ state_str[a] = state_str[b]
                /\ state_str[b] = state_str[c]
             THEN TRUE
             ELSE WinLoopAnyTriple(w, state_str, symbol, i + 1)

\* for (a,b,c) in wins: if state[a] == state[b] == state[c] == symbol: return True
\* return False
RECURSIVE WinLoop(_, _, _, _)
WinLoop(w, state_str, symbol, i) ==
    IF i > Len(w) THEN FALSE
    ELSE LET a == w[i][1] + 1
             b == w[i][2] + 1
             c == w[i][3] + 1
         IN  IF /\ state_str[a] = state_str[b]
                /\ state_str[b] = state_str[c]
                /\ state_str[c] = symbol
             THEN TRUE
             ELSE WinLoop(w, state_str, symbol, i + 1)

check_winner(state_str, symbol) == WinLoop(wins, state_str, symbol, 1)

\* the copy in tic_tac_toe_pygame.py
pg_check_winner(st, symbol) == WinLoop(pg_wins, st, symbol, 1)

\* a variant that tests '' not in state_str, which is never true
is_draw_never(state_str) == FALSE

\* ' ' not in state_str
is_draw(state_str) == \A i \in 1..Len(state_str) : state_str[i] # Empty

\* the copy in tic_tac_toe_pygame.py
pg_is_draw(st) == \A i \in 1..Len(st) : st[i] # Empty

-----------------------------------------------------------------------------
(* The value table.  Q is the dict's items in insertion order, each item   *)
(* [st, action, value] standing for Q[(st, action)] = value.         *)

Entry(st, action, value) ==
    [state |-> st, action |-> action, value |-> value]

HasKey(q, st, action) ==
    \E i \in 1..Len(q) : q[i].state = st /\ q[i].action = action

ValueAt(q, st, action) ==
    q[CHOOSE i \in 1..Len(q) : q[i].state = st /\ q[i].action = action].value

\* the table as a mapping: its set of (state, action, value) triples
Items(q) == {q[i] : i \in 1..Len(q)}
Keys(q) == {<<q[i].state, q[i].action>> : i \in 1..Len(q)}

\* Q[(state, action)] = value : replaces the value of a present key in place,
\* appends an absent key
SetItem(q, st, action, value) ==
    IF HasKey(q, st, action)
    THEN [i \in 1..Len(q) |->
            IF q[i].state = st /\ q[i].action = action
            THEN Entry(st, action, value) ELSE q[i]]
    ELSE Append(q, Entry(st, action, value))

\* a variant that ignores the state part of the key
get_q_value_any_state(q, st, action) ==
    IF \E i \in 1..Len(q) : q[i].action = action
    THEN q[CHOOSE i \in 1..Len(q) : q[i].action = action].value
    ELSE Zero

\* Q.get((state, action), 0.0), in both files
get_q_value(q, st, action) ==
    IF HasKey(q, st, action) THEN ValueAt(q, st, action) ELSE Zero

-----------------------------------------------------------------------------
(* tic_tac_toe_pygame.py: choose_best_action                               *)

\* max(seq, key=lambda x: x[0]): the first item whose key no later item exceeds
RECURSIVE MaxFirst(_, _, _)
MaxFirst(seq, i, best) ==
    IF i > Len(seq) THEN best
    ELSE IF RLess(best[1], seq[i][1])
         THEN MaxFirst(seq, i + 1, seq[i])
         ELSE MaxFirst(seq, i + 1, best)

RECURSIVE MaxLast(_, _, _)
MaxLast(seq, i, best) ==
    IF i > Len(seq) THEN best
    ELSE IF RLess(seq[i][1], best[1])
         THEN MaxLast(seq, i + 1, best)
         ELSE MaxLast(seq, i + 1, seq[i])

\* a variant that keeps the last of several maximal items
PyMaxByKeyLast(seq) == MaxLast(seq, 2, seq[1])

PyMaxByKey(seq) == MaxFirst(seq, 2, seq[1])

\* The set of values choose_best_action(state) can return with table q:
\* random.choice(valid_actions) returns any element of the list.
choose_best_action(q, st) ==
    LET valid_actions == available_actions(st)
        qvals == [k \in 1..Len(valid_actions) |->
                    <<get_q_value(q, st, valid_actions[k]), valid_actions[k]>>]
    IN  IF Len(valid_actions) = 0 THEN {None}
        ELSE IF \A k \in 1..Len(qvals) : qvals[k][1] = Zero
             THEN {Some(valid_actions[k]) : k \in 1..Len(valid_actions)}
             ELSE {Some(PyMaxByKey(qvals)[2])}

\* a variant in which every lookup stores the default it returns
\* (as Q.setdefault((state, a), 0.0) would)
RECURSIVE StoreDefaults(_, _, _, _)
StoreDefaults(q, st, acts, k) ==
    IF k > Len(acts) THEN q
    ELSE IF HasKey(q, st, acts[k])
         THEN StoreDefaults(q, st, acts, k + 1)
         ELSE StoreDefaults(SetItem(q, st, acts[k], Zero), st, acts, k + 1)

table_after_setdefault(q, st) ==
    StoreDefaults(q, st, available_actions(st), 1)

\* The table after choose_best_action(state): the function only reads Q
\* (Q.get), it has no assignment to Q or to an item of Q.
table_after_choose(q, st) == q

-----------------------------------------------------------------------------
(* Text conversions used by save_q_table and load_q_table.                 *)

DigitChars == <<"0", "1", "2", "3", "4", "5", "6", "7", "8", "9">>

IsDigit(ch) == \E d \in 1..10 : DigitChars[d] = ch
DigitValue(ch) == (CHOOSE d \in 1..10 : DigitChars[d] = ch) - 1

RECURSIVE NatText(_)
NatText(n) ==
    IF n < 10 THEN <<DigitChars[n + 1]>>
    ELSE NatText(n \div 10) \o <<DigitChars[(n % 10) + 1]>>

\* str(action) for an int
IntStr(n) == IF n < 0 THEN <<"-">> \o NatText(-n) ELSE NatText(n)

RECURSIVE DigitsValue(_, _, _)
DigitsValue(text, i, acc) ==
    IF i > Len(text) THEN acc
    ELSE DigitsValue(text, i + 1, acc * 10 + DigitValue(text[i]))

AllDigits(text) == Len(text) > 0 /\ \A i \in 1..Len(text) : IsDigit(text[i])

\* int(action_str): <<n>>, or <<>> where int raises ValueError.  An optional
\* sign and leading zeros are accepted (blanks and underscores, which int
\* also accepts, are not modelled).
ParseInt(text) ==
    IF Len(text) > 1 /\ text[1] \in {"-", "+"} /\ AllDigits(Tail(text))
    THEN <<(IF text[1] = "-" THEN -1 ELSE 1) * DigitsValue(Tail(text), 1, 0)>>
    ELSE IF AllDigits(text) THEN <<DigitsValue(text, 1, 0)>>
    ELSE <<>>

\* the digits after the decimal point of rem/den, exact
RECURSIVE FracText(_, _)
FracText(rem, den) ==
    IF rem = 0 THEN <<>>
    ELSE <<DigitChars[((rem * 10) \div den) + 1]>> \o FracText((rem * 10) % den, den)

\* a variant that keeps two decimals only (as "%.2f" would)
FloatReprTwoDecimals(v) ==
    LET n == Abs(v[1])
        frac == FracText(n % v[2], v[2]) \o <<"0", "0">>
    IN  (IF v[1] < 0 THEN <<"-">> ELSE <<>>)
        \o NatText(n \div v[2]) \o <<".">> \o SubSeq(frac, 1, 2)

\* json.dump of a float: float.__repr__, the decimal form that reads back
\* as the same float ("0.5", "-0.45", "0.0")
FloatRepr(v) ==
    LET n == Abs(v[1])
        frac == FracText(n % v[2], v[2])
    IN  (IF v[1] < 0 THEN <<"-">> ELSE <<>>)
        \o NatText(n \div v[2]) \o <<".">>
        \o (IF frac = <<>> THEN <<"0">> ELSE frac)

RECURSIVE Pow10(_)
Pow10(k) == IF k = 0 THEN 1 ELSE 10 * Pow10(k - 1)

PointAt(text) == CHOOSE i \in 1..Len(text) : text[i] = "."

\* json.load of a number: the float (or int) the text denotes
ParseNumber(text) ==
    LET neg == text[1] = "-"
        body == IF neg THEN Tail(text) ELSE text
        hasPoint == \E i \in 1..Len(body) : body[i] = "."
        ip == IF hasPoint THEN SubSeq(body, 1, PointAt(body) - 1) ELSE body
        fp == IF hasPoint THEN SubSeq(body, PointAt(body) + 1, Len(body)) ELSE <<>>
        mag == Rat(DigitsValue(ip \o fp, 1, 0), Pow10(Len(fp)))
    IN  IF neg THEN RSub(Zero, mag) ELSE mag

-----------------------------------------------------------------------------
(* train_tic_tac_toe.py: save_q_table, load_q_table; and the copy of       *)
(* load_q_table in tic_tac_toe_pygame.py.                                  *)
(*                                                                         *)
(* The file is the JSON document it holds:                                 *)
(*   [kind |-> "missing"]            no file                               *)
(*   [kind |-> "invalid"]            text json.load cannot parse           *)
(*   [kind |-> "object", members |-> <<key, document>> pairs in file order]*)
(*   [kind |-> "number", text |-> characters]                              *)
(* Keys are distinct within an object.                                     *)

MissingFile == [kind |-> "missing"]
InvalidFile == [kind |-> "invalid"]
JObject(members) == [kind |-> "object", members |-> members]
JNumber(text) == [kind |-> "number", text |-> text]

\* q_data[st][str(action)] = value on the dict under construction
PutInner(inner, key, value) ==
    IF \E j \in 1..Len(inner) : inner[j][1] = key
    THEN [j \in 1..Len(inner) |->
            IF inner[j][1] = key THEN <<key, value>> ELSE inner[j]]
    ELSE Append(inner, <<key, value>>)

PutData(data, st, key, value) ==
    LET withState == IF \E k \in 1..Len(data) : data[k][1] = st
                     THEN data ELSE Append(data, <<st, <<>>>>)
    IN  [k \in 1..Len(withState) |->
            IF withState[k][1] = st
            THEN <<st, PutInner(withState[k][2], key, value)>>
            ELSE withState[k]]

\* for (state, action), value in Q.items(): ... q_data[state][str(action)] = value
RECURSIVE BuildData(_, _, _)
BuildData(q, i, data) ==
    IF i > Len(q) THEN data
    ELSE BuildData(q, i + 1,
                   PutData(data, q[i].state, IntStr(q[i].action), q[i].value))

\* json.dump(q_data, f)
DumpInner(inner) ==
    JObject([j \in 1..Len(inner) |-> <<inner[j][1], JNumber(FloatRepr(inner[j][2]))>>])

DumpData(data) ==
    JObject([k \in 1..Len(data) |-> <<data[k][1], DumpInner(data[k][2])>>])

\* the file after save_q_table(): opened with "w", so fully rewritten
save_q_table(q) == DumpData(BuildData(q, 1, <<>>))

\* for action_str, value in actions.items(): action = int(action_str);
\* Q[(state, action)] = value
\* The result is the table and the exception raised, if any; the items set
\* before the exception stay in the table.
RECURSIVE LoadActions(_, _, _, _)
LoadActions(q, st, members, j) ==
    IF j > Len(members) THEN [Q |-> q, raised |-> NoError]
    ELSE LET action == ParseInt(members[j][1])
         IN  IF action = <<>>
             THEN [Q |-> q, raised |-> "ValueError"]
             ELSE LoadActions(SetItem(q, st, action[1],
                                      ParseNumber(members[j][2].text)),
                              st, members, j + 1)

\* for state, actions in q_data.items(): ... actions.items() raises
\* AttributeError when actions is not a dict
RECURSIVE LoadStates(_, _, _)
LoadStates(q, members, i) ==
    IF i > Len(members) THEN [Q |-> q, raised |-> NoError]
    ELSE IF members[i][2].kind # "object"
         THEN [Q |-> q, raised |-> "AttributeError"]
         ELSE LET r == LoadActions(q, members[i][1], members[i][2].members, 1)
              IN  IF r.raised # NoError THEN r
                  ELSE LoadStates(r.Q, members, i + 1)

\* load_q_table(file_path), train_tic_tac_toe.py: the table and the
\* exception after the call, from the table q before it.  When the file
\* exists the loop assigns into the existing dict Q.
load_q_table(q, file) ==
    IF file.kind = "missing" THEN [Q |-> <<>>, raised |-> NoError]
    ELSE IF file.kind = "invalid" THEN [Q |-> q, raised |-> "JSONDecodeError"]
    ELSE IF file.kind # "object" THEN [Q |-> q, raised |-> "AttributeError"]
    ELSE LoadStates(q, file.members, 1)

\* load_q_table(file_path), tic_tac_toe_pygame.py
pg_load_q_table(q, file) ==
    IF file.kind = "missing" THEN [Q |-> <<>>, raised |-> NoError]
    ELSE IF file.kind = "invalid" THEN [Q |-> q, raised |-> "JSONDecodeError"]
    ELSE IF file.kind # "object" THEN [Q |-> q, raised |-> "AttributeError"]
    ELSE LoadStates(q, file.members, 1)

-----------------------------------------------------------------------------
(* train_tic_tac_toe.py: Q-LEARNING SUPPORT                                *)

ALPHA == Rat(1, 2)
GAMMA == Rat(9, 10)
REWARD_WIN == Rat(1, 1)
REWARD_LOSE == Rat(-1, 1)
REWARD_DRAW == Rat(0, 1)

\* max(acts, key=lambda a: get_q_value(state, a)): the first maximal action
best_action(q, st) ==
    LET acts == available_actions(st)
        keyed == [k \in 1..Len(acts) |-> <<get_q_value(q, st, acts[k]), acts[k]>>]
    IN  IF Len(acts) = 0 THEN None
        ELSE Some(PyMaxByKey(keyed)[2])

\* values random.random() can return, as far as the test r < epsilon goes
RandomDraws == {Rat(0, 1), Rat(1, 2), Rat(99, 100)}

\* The set of values epsilon_greedy_action(state, epsilon) can return.
epsilon_greedy_action(q, st, eps) ==
    LET acts == available_actions(st)
    IN  IF Len(acts) = 0 THEN {None}
        ELSE UNION { IF RLess(r, eps)
                     THEN {Some(acts[k]) : k \in 1..Len(acts)}
                     ELSE {best_action(q, st)} : r \in RandomDraws }

\* max(get_q_value(new_state, a) for a in next_acts)
RECURSIVE MaxValue(_, _, _, _, _)
MaxValue(q, st, acts, k, best) ==
    IF k > Len(acts) THEN best
    ELSE LET v == get_q_value(q, st, acts[k])
         IN  MaxValue(q, st, acts, k + 1, IF RLess(best, v) THEN v ELSE best)

\* a variant that takes the maximum over all nine cells of new_state
new_q_value_all_cells(q, s, action, reward, new_state) ==
    LET old_q == get_q_value(q, s, action)
        next_acts == <<0, 1, 2, 3, 4, 5, 6, 7, 8>>
        max_q_next == MaxValue(q, new_state, next_acts, 2,
                               get_q_value(q, new_state, next_acts[1]))
    IN  RAdd(old_q, RMul(ALPHA, RSub(RAdd(reward, RMul(GAMMA, max_q_next)), old_q)))

\* the value update_q_value stores
new_q_value(q, s, action, reward, new_state) ==
    LET old_q == get_q_value(q, s, action)
        next_acts == available_actions(new_state)
        max_q_next == IF Len(next_acts) = 0 THEN Zero
                      ELSE MaxValue(q, new_state, next_acts, 2,
                                    get_q_value(q, new_state, next_acts[1]))
    IN  RAdd(old_q, RMul(ALPHA, RSub(RAdd(reward, RMul(GAMMA, max_q_next)), old_q)))

\* the table after update_q_value(old_state, action, reward, new_state)
update_q_value(q, s, action, reward, new_state) ==
    SetItem(q, s, action, new_q_value(q, s, action, reward, new_state))

-----------------------------------------------------------------------------
(* train_tic_tac_toe.py: play_one_game, one loop iteration per step        *)

TrainEpsilons == {Rat(1, 1)}
TrainTables == {<<>>}

NoTrain ==
    /\ epsilon = Zero
    /\ state = <<>>
    /\ current_symbol = ""
    /\ other_symbol = ""
    /\ last_state = [sym \in Symbols |-> None]
    /\ last_action = [sym \in Symbols |-> None]
    /\ old_state = None
    /\ old_action = None
    /\ result = <<>>
    /\ Q0 = <<>>
    /\ moves = <<>>
    /\ updates = <<>>
    /\ episode = 0

NoStore ==
    /\ disk = MissingFile
    /\ ops = <<>>
    /\ preQ = <<>>
    /\ savedQ = <<>>

NoUI ==
    /\ pc = ""
    /\ board = <<>>
    /\ game_over = FALSE
    /\ result_message = ""
    /\ running = FALSE
    /\ new_game_clicked = FALSE
    /\ quit_clicked = FALSE
    /\ events = <<>>

NoArgs ==
    /\ arg_reward = None
    /\ arg_new_state = <<>>
    /\ mouse_pos = <<>>

NoCall ==
    /\ arg_state = <<>>
    /\ arg_action = None
    /\ arg_symbol = ""
    /\ NoArgs
    /\ called = NotCalled
    /\ ret = <<>>

\* play_one_game(epsilon) has been called and has run lines 125-131
TrainInit ==
    /\ prog = "train"
    /\ Q \in TrainTables
    /\ Q0 = Q
    /\ raised = NoError
    /\ epsilon \in TrainEpsilons
    /\ state = initial_state
    /\ current_symbol = "X"
    /\ other_symbol = "O"
    /\ last_state = [sym \in Symbols |-> None]
    /\ last_action = [sym \in Symbols |-> None]
    /\ old_state = None
    /\ old_action = None
    /\ result = <<>>
    /\ moves = <<>>
    /\ updates = <<>>
    /\ episode = 0
    /\ NoCall
    /\ NoStore
    /\ NoUI

\* the arguments of one call update_q_value(old_state, action, reward, new_state)
UpdateCall(s, action, reward, new_state) ==
    [state |-> s, action |-> action, reward |-> reward, new_state |-> new_state]

\* the table after the calls of the sequence calls, made in order
RECURSIVE AfterCalls(_, _, _)
AfterCalls(q, calls, k) ==
    IF k > Len(calls) THEN q
    ELSE AfterCalls(update_q_value(q, calls[k].state, calls[k].action,
                                   calls[k].reward, calls[k].new_state),
                    calls, k + 1)

\* a variant whose deferred update looks at the opponent's previous move
DeferredCallsOfOpponent(prev) ==
    IF last_state[other_symbol] # None
    THEN <<UpdateCall(last_state[other_symbol], last_action[other_symbol][1],
                      Zero, prev)>>
    ELSE <<>>

\* the update_q_value call of lines 149-154, if it is made
DeferredCalls(prev) ==
    IF last_state[current_symbol] # None
    THEN <<UpdateCall(last_state[current_symbol], last_action[current_symbol][1],
                      Zero, prev)>>
    ELSE <<>>

\* the table after the deferred update of lines 149-154
AfterDeferred(q, prev) == AfterCalls(q, DeferredCalls(prev), 1)

\* a variant that punishes the opponent but forgets to reward the final move
AfterWinPunishOnly(q, prev, action, new) ==
    IF last_state[other_symbol] # None
    THEN update_q_value(q, last_state[other_symbol],
                        last_action[other_symbol][1], REWARD_LOSE, prev)
    ELSE q

\* a variant that punishes the opponent before it rewards the final move
WinCallsPunishFirst(prev, action, new) ==
    (IF last_state[other_symbol] # None
     THEN <<UpdateCall(last_state[other_symbol], last_action[other_symbol][1],
                       REWARD_LOSE, prev)>>
     ELSE <<>>)
    \o <<UpdateCall(prev, action, REWARD_WIN, new)>>

\* the update_q_value calls of lines 159-166, in order
WinCalls(prev, action, new) ==
    <<UpdateCall(prev, action, REWARD_WIN, new)>>
    \o (IF last_state[other_symbol] # None
        THEN <<UpdateCall(last_state[other_symbol], last_action[other_symbol][1],
                          REWARD_LOSE, prev)>>
        ELSE <<>>)

\* the table after lines 159-166
AfterWin(q, prev, action, new) == AfterCalls(q, WinCalls(prev, action, new), 1)

\* a variant that keys the draw update by the board after the move
DrawCallsOnNewState(prev, action, new) ==
    <<UpdateCall(new, action, REWARD_DRAW, new)>>

\* the update_q_value call of line 172
DrawCalls(prev, action, new) == <<UpdateCall(prev, action, REWARD_DRAW, new)>>

\* a variant that reports every win as a win of X
WinResultAlwaysX(symbol) == 1

\* line 167: return +1 if current_symbol == 'X' else -1
WinResult(symbol) == IF symbol = "X" THEN 1 ELSE -1

\* one iteration of the while loop, lines 133-178, when epsilon_greedy_action
\* returns act
LoopIteration(act) ==
    IF act = None
    THEN /\ result' = <<0>>
         /\ UNCHANGED <<Q, state, current_symbol, other_symbol, last_state,
                        last_action, old_state, old_action, moves, updates>>
    ELSE LET action == act[1]
             new == next_state(state, action, current_symbol)
             q1 == AfterDeferred(Q, state)
             played == [state |-> state, action |-> action,
                        symbol |-> current_symbol]
         IN  /\ old_state' = state
             /\ old_action' = Some(action)
             /\ state' = new
             /\ moves' = Append(moves, played)
             /\ IF check_winner(new, current_symbol)
                THEN /\ Q' = AfterWin(q1, state, action, new)
                     /\ updates' = updates \o DeferredCalls(state)
                                           \o WinCalls(state, action, new)
                     /\ result' = <<WinResult(current_symbol)>>
                     /\ UNCHANGED <<current_symbol, other_symbol,
                                    last_state, last_action>>
                ELSE IF is_draw(new)
                THEN /\ Q' = AfterCalls(q1, DrawCalls(state, action, new), 1)
                     /\ updates' = updates \o DeferredCalls(state)
                                           \o DrawCalls(state, action, new)
                     /\ result' = <<0>>
                     /\ UNCHANGED <<current_symbol, other_symbol,
                                    last_state, last_action>>
                ELSE /\ Q' = q1
                     /\ updates' = updates \o DeferredCalls(state)
                     /\ last_state' = [last_state EXCEPT ![current_symbol] = state]
                     /\ last_action' = [last_action EXCEPT ![current_symbol] = Some(action)]
                     /\ current_symbol' = other_symbol
                     /\ other_symbol' = current_symbol
                     /\ UNCHANGED result

\* one iteration of the while loop, for every value epsilon_greedy_action can
\* return
PlayMove ==
    /\ prog = "train"
    /\ result = <<>>
    /\ \E act \in epsilon_greedy_action(Q, state, epsilon) : LoopIteration(act)
    /\ UNCHANGED <<prog, raised, epsilon, Q0, episode, callVars, storeVars, uiVars>>

TrainNext == PlayMove

SpecTrain == TrainInit /\ [][TrainNext]_vars

-----------------------------------------------------------------------------
(* Calls of the board functions on arbitrary arguments.                    *)

BoardInit ==
    /\ prog = "board"
    /\ NoTrain
    /\ NoStore
    /\ NoUI
    /\ Q = <<>>
    /\ arg_state \in AllBoards
    /\ arg_symbol \in Symbols
    /\ arg_action = None
    /\ NoArgs
    /\ called = NotCalled
    /\ ret = <<>>
    /\ raised = NoError

CallCheckWinner ==
    /\ prog = "board"
    /\ called = NotCalled
    /\ \/ /\ called' = "check_winner"
          /\ ret' = <<check_winner(arg_state, arg_symbol)>>
       \/ /\ called' = "pg_check_winner"
          /\ ret' = <<pg_check_winner(arg_state, arg_symbol)>>
    /\ raised' = NoError
    /\ UNCHANGED <<prog, Q, arg_state, arg_action, arg_symbol, argVars,
                   trainVars, storeVars, uiVars>>

CallNextState ==
    /\ prog = "board"
    /\ called = NotCalled
    /\ called' = "next_state"
    /\ \E action \in Actions :
          /\ arg_action' = Some(action)
          /\ ret' = <<next_state(arg_state, action, arg_symbol)>>
    /\ raised' = NoError
    /\ UNCHANGED <<prog, Q, arg_state, arg_symbol, argVars, trainVars, storeVars,
                   uiVars>>

BoardNext == CallCheckWinner \/ CallNextState

SpecBoard == BoardInit /\ [][BoardNext]_vars

-----------------------------------------------------------------------------
(* Saving and loading the table: sequences of save_q_table, load_q_table   *)
(* (either copy) and process starts, from a table and a file drawn from    *)
(* StoreTables and StoreFiles.                                             *)

MaxOps == 3

BoardX0 == [initial_state EXCEPT ![1] = "X"]

StoreTables ==
    { <<>>,
      <<Entry(initial_state, 4, Rat(9, 10))>>,
      <<Entry(BoardX0, 1, Rat(1, 2))>>,
      <<Entry(initial_state, 4, Rat(9, 10)), Entry(BoardX0, 1, Rat(-1, 2)),
        Entry(initial_state, 0, Rat(29, 40))>>,
      <<Entry(initial_state, 10, Rat(9, 20)), Entry(BoardX0, -1, Zero)>> }

N09 == JNumber(<<"0", ".", "9">>)
N01 == JNumber(<<"0", ".", "1">>)

StoreFiles ==
    { MissingFile,
      InvalidFile,
      JObject(<<>>),
      JObject(<< <<initial_state, JObject(<< <<<<"4">>, N09>> >>)>> >>),
      JObject(<< <<BoardX0, JObject(<< <<<<"1">>, JNumber(<<"-", "0", ".", "5">>)>>,
                                       <<<<"3">>, JNumber(<<"0", ".", "2", "5">>)>> >>)>>,
                 <<initial_state, JObject(<< <<<<"0">>, JNumber(<<"1">>)>> >>)>> >>),
      JObject(<< <<initial_state, JObject(<< <<<<"0", "4">>, N01>> >>)>> >>),
      JObject(<< <<initial_state, JNumber(<<"5">>)>> >>),
      JObject(<< <<initial_state, JObject(<< <<<<"4">>, N09>> >>)>>,
                 <<BoardX0, JNumber(<<"5">>)>> >>),
      JObject(<< <<initial_state, JObject(<< <<<<"x">>, N01>> >>)>> >>),
      JObject(<< <<initial_state, JObject(<< <<<<"4">>, N09>>,
                                             <<<<"x">>, N01>> >>)>> >>) }

StoreInit ==
    /\ prog = "store"
    /\ Q \in StoreTables
    /\ disk \in StoreFiles
    /\ ops = <<>>
    /\ preQ = Q
    /\ savedQ = <<>>
    /\ raised = NoError
    /\ NoTrain
    /\ NoCall
    /\ NoUI

\* a call of save_q_table()
SaveQTable ==
    /\ prog = "store"
    /\ raised = NoError
    /\ Len(ops) < MaxOps
    /\ disk' = save_q_table(Q)
    /\ savedQ' = Q
    /\ preQ' = Q
    /\ ops' = Append(ops, "save")
    /\ UNCHANGED <<prog, Q, raised, callVars, trainVars, uiVars>>

\* a call of load_q_table(file_path), of either file
LoadQTable ==
    /\ prog = "store"
    /\ raised = NoError
    /\ Len(ops) < MaxOps
    /\ \/ LET r == load_q_table(Q, disk)
          IN  Q' = r.Q /\ raised' = r.raised /\ ops' = Append(ops, "load")
       \/ LET r == pg_load_q_table(Q, disk)
          IN  Q' = r.Q /\ raised' = r.raised /\ ops' = Append(ops, "pg_load")
    /\ preQ' = Q
    /\ UNCHANGED <<prog, disk, savedQ, callVars, trainVars, uiVars>>

\* a new process: the module-level statement Q = {}
ProcessStart ==
    /\ prog = "store"
    /\ Len(ops) < MaxOps
    /\ Q' = <<>>
    /\ raised' = NoError
    /\ preQ' = Q
    /\ ops' = Append(ops, "start")
    /\ UNCHANGED <<prog, disk, savedQ, callVars, trainVars, uiVars>>

StoreNext == SaveQTable \/ LoadQTable \/ ProcessStart

SpecStore == StoreInit /\ [][StoreNext]_vars

-----------------------------------------------------------------------------
(* Calls of choose_best_action on arbitrary boards and tables.             *)

MaxEntries == 2

\* one board for every set of empty cells
AdvisorBoards ==
    {b \in AllBoards :
        \A i \in 1..9 : b[i] # Empty => b[i] = (IF i % 2 = 1 THEN "X" ELSE "O")}

AdvisorValues == {Rat(-1, 2), Zero, Rat(9, 10)}

RECURSIVE EntriesOf(_, _, _)
EntriesOf(st, f, a) ==
    IF a > 8 THEN <<>>
    ELSE IF a \in DOMAIN f
         THEN <<Entry(st, a, f[a])>> \o EntriesOf(st, f, a + 1)
         ELSE EntriesOf(st, f, a + 1)

\* entries of another board, which a lookup for st must not see
Decoy(st) ==
    LET other == IF st = initial_state THEN BoardX0 ELSE initial_state
    IN  <<Entry(other, 0, Rat(1, 1)), Entry(other, 8, Rat(1, 1))>>

\* the empty table, and the tables with at most MaxEntries entries for st
\* that follow the entries of another board
AdvisorTables(st) ==
    LET own == {EntriesOf(st, f, 0) :
                  f \in UNION {[A -> AdvisorValues] :
                                 A \in {B \in SUBSET Actions : Cardinality(B) <= MaxEntries}}}
    IN  {<<>>} \cup {Decoy(st) \o t : t \in own}

AdvisorInit ==
    /\ prog = "advisor"
    /\ arg_state \in AdvisorBoards
    /\ Q \in AdvisorTables(arg_state)
    /\ arg_action = None
    /\ arg_symbol = ""
    /\ NoArgs
    /\ called = NotCalled
    /\ ret = <<>>
    /\ raised = NoError
    /\ NoTrain
    /\ NoStore
    /\ NoUI

CallChooseBestAction ==
    /\ prog = "advisor"
    /\ called = NotCalled
    /\ called' = "choose_best_action"
    /\ \E r \in choose_best_action(Q, arg_state) : ret' = <<r>>
    /\ Q' = table_after_choose(Q, arg_state)
    /\ UNCHANGED <<prog, raised, arg_state, arg_action, arg_symbol, argVars,
                   trainVars, storeVars, uiVars>>

AdvisorNext == CallChooseBestAction

SpecAdvisor == AdvisorInit /\ [][AdvisorNext]_vars

-----------------------------------------------------------------------------
(* tic_tac_toe_pygame.py: main, the interactive game loop.                 *)
(* One frame is: step 5 and pygame.event.get() (FrameDraw), the event loop *)
(* of step 6 one event at a time (HandleEvent), step 7 (AITurn), step 8    *)
(* (ResetStep).                                                            *)

WINDOW_SIZE == 600
BOARD_SIZE == 480
TOP_MARGIN == (WINDOW_SIZE - BOARD_SIZE) \div 2
LEFT_MARGIN == (WINDOW_SIZE - BOARD_SIZE) \div 2
CELL_SIZE == BOARD_SIZE \div 3

user_symbol == "X"
ai_symbol == "O"

get_cell_index(mx, my) ==
    IF \/ mx < LEFT_MARGIN
       \/ mx > LEFT_MARGIN + BOARD_SIZE
       \/ my < TOP_MARGIN
       \/ my > TOP_MARGIN + BOARD_SIZE
    THEN None
    ELSE LET col == (mx - LEFT_MARGIN) \div CELL_SIZE
             row == (my - TOP_MARGIN) \div CELL_SIZE
         IN  Some(row * 3 + col)

MaxEvents == 2

EventTypes == {"QUIT", "MOUSEBUTTONDOWN", "OTHER"}
EventLists == UNION {[1..n -> EventTypes] : n \in 0..MaxEvents}

\* pixel coordinates pygame.mouse.get_pos() is drawn from: the window's
\* edges and both sides of every grid boundary
MouseCoords ==
    {0, LEFT_MARGIN - 1, LEFT_MARGIN,
     LEFT_MARGIN + CELL_SIZE - 1, LEFT_MARGIN + CELL_SIZE,
     LEFT_MARGIN + 2 * CELL_SIZE - 1, LEFT_MARGIN + 2 * CELL_SIZE,
     LEFT_MARGIN + BOARD_SIZE - 1, LEFT_MARGIN + BOARD_SIZE,
     LEFT_MARGIN + BOARD_SIZE + 1, WINDOW_SIZE - 1}

BoardX4 == [initial_state EXCEPT ![5] = "X"]

\* q_table.json as the game finds it
UIFiles ==
    { MissingFile,
      JObject(<< <<BoardX0, JObject(<< <<<<"4">>, N09>> >>)>>,
                 <<BoardX4, JObject(<< <<<<"0">>, JNumber(<<"0", ".", "5">>)>>,
                                       <<<<"8">>, JNumber(<<"0", ".", "5">>)>>,
                                       <<<<"2">>, JNumber(<<"-", "0", ".", "5">>)>> >>)>> >>),
      JObject(<< <<BoardX0, JObject(<< <<<<"4">>, N09>> >>)>>,
                 <<BoardX4, JNumber(<<"5">>)>> >>) }

UIInit ==
    /\ prog = "ui"
    /\ Q = <<>>
    /\ disk \in UIFiles
    /\ ops = <<>>
    /\ preQ = <<>>
    /\ savedQ = <<>>
    /\ raised = NoError
    /\ pc = "start"
    /\ board = <<>>
    /\ current_symbol = ""
    /\ game_over = FALSE
    /\ result_message = ""
    /\ running = FALSE
    /\ new_game_clicked = FALSE
    /\ quit_clicked = FALSE
    /\ events = <<>>
    /\ epsilon = Zero
    /\ state = <<>>
    /\ other_symbol = ""
    /\ last_state = [sym \in Symbols |-> None]
    /\ last_action = [sym \in Symbols |-> None]
    /\ old_state = None
    /\ old_action = None
    /\ result = <<>>
    /\ Q0 = <<>>
    /\ moves = <<>>
    /\ updates = <<>>
    /\ episode = 0
    /\ NoCall

uiFrame == <<prog, callVars, storeVars, epsilon, state, other_symbol, last_state,
             last_action, old_state, old_action, result, Q0, moves, updates,
             episode>>

\* lines 241-250: load_q_table(Q_TABLE_FILE), then the locals of main
UIStart ==
    /\ prog = "ui"
    /\ pc = "start"
    /\ LET r == pg_load_q_table(Q, disk)
       IN  /\ Q' = r.Q
           /\ raised' = r.raised
           /\ IF r.raised # NoError
              THEN /\ pc' = "crashed"
                   /\ UNCHANGED <<board, current_symbol, running>>
              ELSE /\ pc' = "draw"
                   /\ board' = [i \in 1..9 |-> Empty]
                   /\ current_symbol' = "X"
                   /\ running' = TRUE
    /\ UNCHANGED <<game_over, result_message, new_game_clicked, quit_clicked,
                   events, uiFrame>>

\* lines 252-274: the loop test, steps 1-5, and pygame.event.get()
FrameDraw ==
    /\ prog = "ui"
    /\ pc = "draw"
    /\ running
    /\ IF game_over
       THEN \* draw_overlay: the mouse is pressed over "New", over "Exit",
            \* or neither (the two buttons do not overlap)
            \E clicked \in {<<FALSE, FALSE>>, <<TRUE, FALSE>>, <<FALSE, TRUE>>} :
                new_game_clicked' = clicked[1] /\ quit_clicked' = clicked[2]
       ELSE new_game_clicked' = FALSE /\ quit_clicked' = FALSE
    /\ events' \in EventLists
    /\ pc' = IF events' = <<>> THEN "ai" ELSE "events"
    /\ UNCHANGED <<Q, raised, board, current_symbol, game_over, result_message,
                   running, uiFrame>>

\* lines 252, 327-328: the loop ends, pygame.quit(), sys.exit()
Quit ==
    /\ prog = "ui"
    /\ pc = "draw"
    /\ ~running
    /\ pc' = "exit"
    /\ UNCHANGED <<Q, raised, board, current_symbol, game_over, result_message,
                   running, new_game_clicked, quit_clicked, events, uiFrame>>

\* a variant that does not hand the turn to the AI
UserMoveKeepsTurn(idx) ==
    LET b == [board EXCEPT ![idx + 1] = user_symbol]
    IN  /\ board' = b
        /\ IF pg_check_winner(b, user_symbol)
           THEN /\ result_message' = "You Win!"
                /\ game_over' = TRUE
                /\ UNCHANGED current_symbol
           ELSE IF pg_is_draw(b)
           THEN /\ result_message' = "It's a Draw!"
                /\ game_over' = TRUE
                /\ UNCHANGED current_symbol
           ELSE UNCHANGED <<current_symbol, result_message, game_over>>

\* lines 285-294: the user's mark is written and the outcome checked
UserMove(idx) ==
    LET b == [board EXCEPT ![idx + 1] = user_symbol]
    IN  /\ board' = b
        /\ IF pg_check_winner(b, user_symbol)
           THEN /\ result_message' = "You Win!"
                /\ game_over' = TRUE
                /\ UNCHANGED current_symbol
           ELSE IF pg_is_draw(b)
           THEN /\ result_message' = "It's a Draw!"
                /\ game_over' = TRUE
                /\ UNCHANGED current_symbol
           ELSE /\ current_symbol' = ai_symbol
                /\ UNCHANGED <<result_message, game_over>>

\* lines 274-294: one iteration of the for loop
HandleEvent ==
    /\ prog = "ui"
    /\ pc = "events"
    /\ LET event == Head(events)
           rest == Tail(events)
           continue == /\ events' = rest
                       /\ pc' = IF rest = <<>> THEN "ai" ELSE "events"
       IN  IF event = "QUIT"
           THEN /\ running' = FALSE
                /\ events' = <<>>
                /\ pc' = "ai"
                /\ UNCHANGED <<board, current_symbol, game_over, result_message, raised>>
           ELSE IF ~game_over /\ event = "MOUSEBUTTONDOWN" /\ current_symbol = user_symbol
           THEN \E mx \in MouseCoords, my \in MouseCoords :
                  LET idx == get_cell_index(mx, my)
                  IN  IF idx = None
                      THEN /\ continue
                           /\ UNCHANGED <<board, current_symbol, game_over,
                                          result_message, running, raised>>
                      ELSE IF idx[1] + 1 > Len(board)
                      THEN \* board[idx]: IndexError, not caught
                           /\ raised' = "IndexError"
                           /\ pc' = "crashed"
                           /\ UNCHANGED <<board, current_symbol, game_over,
                                          result_message, running, events>>
                      ELSE IF board[idx[1] + 1] = Empty
                      THEN /\ UserMove(idx[1])
                           /\ continue
                           /\ UNCHANGED <<running, raised>>
                      ELSE /\ continue
                           /\ UNCHANGED <<board, current_symbol, game_over,
                                          result_message, running, raised>>
           ELSE /\ continue
                /\ UNCHANGED <<board, current_symbol, game_over, result_message,
                               running, raised>>
    /\ UNCHANGED <<Q, new_game_clicked, quit_clicked, uiFrame>>

\* lines 297-312: step 7
AITurn ==
    /\ prog = "ui"
    /\ pc = "ai"
    /\ pc' = "reset"
    /\ IF ~game_over /\ current_symbol = ai_symbol
       THEN /\ \E ai_move \in choose_best_action(Q, board) :
                 IF ai_move # None
                 THEN LET b == [board EXCEPT ![ai_move[1] + 1] = ai_symbol]
                      IN  /\ board' = b
                          /\ IF pg_check_winner(b, ai_symbol)
                             THEN result_message' = "AI Wins!" /\ game_over' = TRUE
                             ELSE IF pg_is_draw(b)
                             THEN result_message' = "It's a Draw!" /\ game_over' = TRUE
                             ELSE UNCHANGED <<result_message, game_over>>
                 ELSE /\ result_message' = "It's a Draw!"
                      /\ game_over' = TRUE
                      /\ UNCHANGED board
            /\ Q' = table_after_choose(Q, board)
            /\ current_symbol' = user_symbol
       ELSE UNCHANGED <<Q, board, current_symbol, game_over, result_message>>
    /\ UNCHANGED <<raised, running, new_game_clicked, quit_clicked, events, uiFrame>>

\* lines 315-325: step 8
ResetStep ==
    /\ prog = "ui"
    /\ pc = "reset"
    /\ pc' = "draw"
    /\ IF game_over /\ new_game_clicked
       THEN /\ board' = [i \in 1..9 |-> Empty]
            /\ current_symbol' = "X"
            /\ result_message' = ""
            /\ game_over' = FALSE
            /\ UNCHANGED running
       ELSE IF game_over /\ quit_clicked
       THEN /\ running' = FALSE
            /\ UNCHANGED <<board, current_symbol, result_message, game_over>>
       ELSE UNCHANGED <<board, current_symbol, result_message, game_over, running>>
    /\ UNCHANGED <<Q, raised, new_game_clicked, quit_clicked, events, uiFrame>>

UINext == UIStart \/ FrameDraw \/ Quit \/ HandleEvent \/ AITurn \/ ResetStep

SpecUI == UIInit /\ [][UINext]_vars

-----------------------------------------------------------------------------
(* Calls of update_q_value on a table and arguments drawn from small sets. *)

MaxUpdateEntries == 2

\* two cells left, 4 and 8, and no line
BoardTwoLeft == <<"X", "O", "X", "O", " ", "X", "O", "X", " ">>
\* a full board without a line
BoardFull == <<"X", "O", "X", "X", "O", "O", "O", "X", "X">>

UpdateBoards == {initial_state, BoardX0, BoardTwoLeft, BoardFull}
UpdateActions == {0, 4}
UpdateRewards == {REWARD_WIN, REWARD_LOSE, REWARD_DRAW}
UpdateValues == {Rat(-1, 2), Rat(1, 2), Rat(9, 10)}

\* the keys a table of UpdateTables may hold, in the order it holds them
UpdateKeys ==
    <<<<initial_state, 0>>, <<initial_state, 4>>, <<initial_state, 8>>,
      <<BoardX0, 0>>, <<BoardX0, 4>>, <<BoardX0, 8>>,
      <<BoardTwoLeft, 0>>, <<BoardTwoLeft, 4>>, <<BoardTwoLeft, 8>>,
      <<BoardFull, 0>>, <<BoardFull, 4>>, <<BoardFull, 8>>>>

RECURSIVE KeyedEntries(_, _)
KeyedEntries(f, k) ==
    IF k > Len(UpdateKeys) THEN <<>>
    ELSE IF k \in DOMAIN f
         THEN <<Entry(UpdateKeys[k][1], UpdateKeys[k][2], f[k])>>
              \o KeyedEntries(f, k + 1)
         ELSE KeyedEntries(f, k + 1)

\* the tables with at most MaxUpdateEntries entries over UpdateKeys
UpdateTables ==
    {KeyedEntries(f, 1) :
        f \in UNION {[A -> UpdateValues] :
                       A \in {B \in SUBSET (1..Len(UpdateKeys)) :
                                Cardinality(B) <= MaxUpdateEntries}}}

UpdateInit ==
    /\ prog = "update"
    /\ Q \in UpdateTables
    /\ preQ = Q
    /\ arg_state \in UpdateBoards
    /\ arg_action \in {Some(a) : a \in UpdateActions}
    /\ arg_reward \in {Some(r) : r \in UpdateRewards}
    /\ arg_new_state \in UpdateBoards
    /\ arg_symbol = ""
    /\ mouse_pos = <<>>
    /\ called = NotCalled
    /\ ret = <<>>
    /\ raised = NoError
    /\ disk = MissingFile
    /\ ops = <<>>
    /\ savedQ = <<>>
    /\ NoTrain
    /\ NoUI

\* a call update_q_value(arg_state, arg_action, arg_reward, arg_new_state)
CallUpdateQValue ==
    /\ prog = "update"
    /\ called = NotCalled
    /\ called' = "update_q_value"
    /\ Q' = update_q_value(Q, arg_state, arg_action[1], arg_reward[1], arg_new_state)
    /\ preQ' = Q
    /\ ret' = <<None>>
    /\ raised' = NoError
    /\ UNCHANGED <<prog, arg_state, arg_action, arg_symbol, argVars, disk, ops,
                   savedQ, trainVars, uiVars>>

UpdateNext == CallUpdateQValue

SpecUpdate == UpdateInit /\ [][UpdateNext]_vars

-----------------------------------------------------------------------------
(* Calls of get_cell_index on every pixel of the window.                   *)

WindowPixels == 0..(WINDOW_SIZE - 1)

PixelInit ==
    /\ prog = "pixel"
    /\ mouse_pos \in WindowPixels \X WindowPixels
    /\ Q = <<>>
    /\ arg_state = <<>>
    /\ arg_action = None
    /\ arg_symbol = ""
    /\ arg_reward = None
    /\ arg_new_state = <<>>
    /\ called = NotCalled
    /\ ret = <<>>
    /\ raised = NoError
    /\ NoTrain
    /\ NoStore
    /\ NoUI

\* a call get_cell_index(mx, my)
CallGetCellIndex ==
    /\ prog = "pixel"
    /\ called = NotCalled
    /\ called' = "get_cell_index"
    /\ ret' = <<get_cell_index(mouse_pos[1], mouse_pos[2])>>
    /\ raised' = NoError
    /\ UNCHANGED <<prog, Q, arg_state, arg_action, arg_symbol, argVars,
                   trainVars, storeVars, uiVars>>

PixelNext == CallGetCellIndex

SpecPixel == PixelInit /\ [][PixelNext]_vars

-----------------------------------------------------------------------------
(* train_tic_tac_toe.py: main, the episodes of one training run.  EPISODES *)
(* is bounded by MaxEpisodes, random.choice by the positions of            *)
(* ExploredPositions, and the decaying epsilon takes the values of         *)
(* EpsilonLevels.  The counters x_wins, o_wins and draws, which are only   *)
(* printed, are left out.                                                  *)

MaxEpisodes == 2

EPSILON_START == Rat(1, 1)
EPSILON_END == Rat(1, 100)

\* the values epsilon takes: it starts at EPSILON_START, falls with every
\* episode and stays at EPSILON_END once it is there
EpsilonLevels == {EPSILON_START, Rat(1, 2), EPSILON_END}
Decayed(eps) == {e \in EpsilonLevels : RLess(e, eps) \/ e = EPSILON_END}

\* the positions of acts random.choice is taken to return: the last one
ExploredPositions(acts) == {Len(acts)}

\* the values of epsilon_greedy_action(state, epsilon) within that bound
explored_actions(q, st, eps) ==
    LET acts == available_actions(st)
    IN  IF Len(acts) = 0 THEN {None}
        ELSE UNION { IF RLess(r, eps)
                     THEN {Some(acts[k]) : k \in ExploredPositions(acts)}
                     ELSE {best_action(q, st)} : r \in RandomDraws }

uiRest == <<board, game_over, result_message, running, new_game_clicked,
            quit_clicked, events>>

\* main has run lines 182-193 without a q_table.json and has called
\* play_one_game for the first time
MainInit ==
    /\ prog = "main"
    /\ pc = "episode"
    /\ Q = <<>>
    /\ Q0 = <<>>
    /\ raised = NoError
    /\ epsilon = EPSILON_START
    /\ episode = 0
    /\ state = initial_state
    /\ current_symbol = "X"
    /\ other_symbol = "O"
    /\ last_state = [sym \in Symbols |-> None]
    /\ last_action = [sym \in Symbols |-> None]
    /\ old_state = None
    /\ old_action = None
    /\ result = <<>>
    /\ moves = <<>>
    /\ updates = <<>>
    /\ board = <<>>
    /\ game_over = FALSE
    /\ result_message = ""
    /\ running = FALSE
    /\ new_game_clicked = FALSE
    /\ quit_clicked = FALSE
    /\ events = <<>>
    /\ NoCall
    /\ NoStore

\* one iteration of the while loop of play_one_game, called from main
EpisodeMove ==
    /\ prog = "main"
    /\ pc = "episode"
    /\ result = <<>>
    /\ \E act \in explored_actions(Q, state, epsilon) : LoopIteration(act)
    /\ UNCHANGED <<prog, raised, epsilon, Q0, episode, callVars, storeVars, uiVars>>

\* lines 196-205: play_one_game has returned; epsilon decays; the for loop
\* calls play_one_game again (lines 125-131) or ends
EpisodeReturn ==
    /\ prog = "main"
    /\ pc = "episode"
    /\ result # <<>>
    /\ episode' = episode + 1
    /\ epsilon' \in Decayed(epsilon)
    /\ IF episode + 1 < MaxEpisodes
       THEN /\ state' = initial_state
            /\ current_symbol' = "X"
            /\ other_symbol' = "O"
            /\ last_state' = [sym \in Symbols |-> None]
            /\ last_action' = [sym \in Symbols |-> None]
            /\ old_state' = None
            /\ old_action' = None
            /\ result' = <<>>
            /\ moves' = <<>>
            /\ updates' = <<>>
            /\ Q0' = Q
            /\ UNCHANGED pc
       ELSE /\ pc' = "save"
            /\ UNCHANGED <<state, current_symbol, other_symbol, last_state,
                           last_action, old_state, old_action, result, moves,
                           updates, Q0>>
    /\ UNCHANGED <<prog, Q, raised, callVars, storeVars, uiRest>>

\* lines 207-212: save_q_table(SAVE_FILE)
MainSave ==
    /\ prog = "main"
    /\ pc = "save"
    /\ disk' = save_q_table(Q)
    /\ savedQ' = Q
    /\ pc' = "done"
    /\ UNCHANGED <<prog, Q, raised, callVars, trainVars, ops, preQ, uiRest>>

MainNext == EpisodeMove \/ EpisodeReturn \/ MainSave

SpecMain == MainInit /\ [][MainNext]_vars

-----------------------------------------------------------------------------
(* Specifications that put several programs side by side.                  *)

\* direct calls of choose_best_action, and the game loop that calls it
SpecAdvisorUI == (AdvisorInit \/ UIInit) /\ [][AdvisorNext \/ UINext]_vars

\* self-play and interactive play
SpecPlay == (TrainInit \/ UIInit) /\ [][TrainNext \/ UINext]_vars

\* one episode with every random outcome, and the episodes of a training run
SpecSelfPlay == (TrainInit \/ MainInit) /\ [][TrainNext \/ MainNext]_vars

\* direct calls of update_q_value, and the episode that calls it
SpecUpdateTrain == (UpdateInit \/ TrainInit) /\ [][UpdateNext \/ TrainNext]_vars

Init ==
    \/ BoardInit \/ AdvisorInit \/ StoreInit \/ TrainInit \/ UIInit
    \/ UpdateInit \/ PixelInit \/ MainInit
Next ==
    \/ BoardNext \/ AdvisorNext \/ StoreNext \/ TrainNext \/ UINext
    \/ UpdateNext \/ PixelNext \/ MainNext
Spec == Init /\ [][Next]_vars

-----------------------------------------------------------------------------
(* Properties.                                                             *)

\* the value stored for (st, a) in table q, 0.0 when there is none
Stored(q, st, a) ==
    IF \E e \in Items(q) : e.state = st /\ e.action = a
    THEN (CHOOSE e \in Items(q) : e.state = st /\ e.action = a).value
    ELSE <<0, 1>>

LegalActions(st) == {a \in 0..8 : st[a + 1] = " "}

\* C1: choose_best_action(state) returns None iff the state has no empty
\* cell; if every legal action's stored value is 0.0 the result is a legal
\* action and every legal action is a possible result; otherwise the result
\* is the legal action of maximum stored value, the lowest-indexed of them.
ChooseBestActionContract ==
    called = "choose_best_action" =>
        LET r == ret[1]
            legal == LegalActions(arg_state)
            val(a) == Stored(Q, arg_state, a)
        IN  /\ (r = <<>>) <=> (legal = {})
            /\ legal # {} =>
                  /\ r[1] \in legal
                  /\ IF \A a \in legal : val(a) = <<0, 1>>
                     THEN choose_best_action(Q, arg_state) = {<<a>> : a \in legal}
                     ELSE /\ choose_best_action(Q, arg_state) = {r}
                          /\ \A b \in legal :
                                /\ ~RLess(val(r[1]), val(b))
                                /\ val(b) = val(r[1]) => r[1] <= b

\* two legal actions share the maximum 0.9, other entries belong to another
\* board, and the lower index was returned
ChooseBestActionTie ==
    /\ called = "choose_best_action"
    /\ Len(Q) = 4
    /\ \E a, b \in LegalActions(arg_state) :
          /\ a < b
          /\ Stored(Q, arg_state, a) = <<9, 10>>
          /\ Stored(Q, arg_state, b) = <<9, 10>>
          /\ ret = << <<a>> >>

\* C2: choose_best_action never changes the table, called directly or by
\* the game loop; no step of the game loop after the load changes it.
ChooseBestActionKeepsTable ==
    [][(prog = "advisor" \/ (prog = "ui" /\ pc # "start")) => Q' = Q]_vars

\* the AI has answered twice in a game played with a loaded table
AIMovedWithTable ==
    /\ prog = "ui"
    /\ pc = "reset"
    /\ Len(Q) > 0
    /\ Count(board, "O") = 2

\* C3: next_state on an occupied cell fails with InvalidMoveError and
\* returns no state.
NextStateRejectsOccupied ==
    (called = "next_state" /\ arg_state[arg_action[1] + 1] # " ") =>
        (raised = "InvalidMoveError" /\ ret = <<>>)

LastOpIsLoad == ops # <<>> /\ ops[Len(ops)] \in {"load", "pg_load"}

IntegerText(text) ==
    LET digits == IF text # <<>> /\ text[1] \in {"-", "+"} THEN Tail(text) ELSE text
    IN  digits # <<>> /\ \A i \in 1..Len(digits) : IsDigit(digits[i])

Malformed(file) ==
    \/ file.kind = "invalid"
    \/ /\ file.kind = "object"
       /\ \E i \in 1..Len(file.members) :
             \/ file.members[i][2].kind # "object"
             \/ \E j \in 1..Len(file.members[i][2].members) :
                   ~IntegerText(file.members[i][2].members[j][1])

\* the exceptions by which the loader reports malformed data
CorruptDataError == {"JSONDecodeError", "AttributeError", "ValueError"}

\* C4: loading a malformed file fails, and after the failure the table
\* holds no entry that it did not hold before the call.
LoadMalformedLeavesNoPartialTable ==
    (prog = "store" /\ LastOpIsLoad /\ Malformed(disk)) =>
        (raised \in CorruptDataError /\ Items(Q) \subseteq Items(preQ))

\* C5: save_q_table followed by load_q_table (in the same process, or in a
\* new one) yields the table that was saved: same keys, same values.
SaveLoadRoundTrip ==
    LET n == Len(ops)
    IN  (/\ prog = "store"
         /\ LastOpIsLoad
         /\ n >= 2
         /\ \/ ops[n - 1] = "save"
            \/ n >= 3 /\ ops[n - 1] = "start" /\ ops[n - 2] = "save")
        => /\ raised = NoError
           /\ Items(Q) = Items(savedQ)
           /\ Cardinality(Keys(Q)) = Len(Q)

\* a three-entry table saved, then read back by the game in a new process
RoundTripInNewProcess ==
    /\ ops = <<"save", "start", "pg_load">>
    /\ Len(savedQ) = 3
    /\ Items(Q) = Items(savedQ)

\* the (state, action, value) entries a well-formed file holds
FileEntries(file) ==
    IF file.kind # "object" THEN {}
    ELSE { [state |-> file.members[i][1],
            action |-> ParseInt(file.members[i][2].members[j][1])[1],
            value |-> ParseNumber(file.members[i][2].members[j][2].text)] :
             <<i, j>> \in { p \in (1..Len(file.members)) \X (1..3) :
                              p[2] <= Len(file.members[p[1]][2].members) } }

\* C6: after load_q_table returns, the table holds exactly the entries of
\* the file, whatever it held before; no entries when the file is missing.
LoadYieldsPersistedEntries ==
    (prog = "store" /\ LastOpIsLoad /\ raised = NoError) =>
        Items(Q) = FileEntries(disk)

EpisodeOver == prog = "train" /\ result # <<>>

\* C7 as stated: after an episode from an empty table with epsilon 1.0 the
\* entry of the terminal move differs from 0.0, whatever the outcome.
TerminalEntryNonDefault ==
    (EpisodeOver /\ Q0 = <<>> /\ epsilon = <<1, 1>>) =>
        /\ \E e \in Items(Q) : e.state = old_state /\ e.action = old_action[1]
        /\ Stored(Q, old_state, old_action[1]) # <<0, 1>>

\* C7 amended: the entry of the terminal move exists; it is 0.5 after a win
\* of either player; after a draw it is 0.0 and so is every entry.
TerminalEntryByOutcome ==
    (EpisodeOver /\ Q0 = <<>> /\ epsilon = <<1, 1>>) =>
        /\ \E e \in Items(Q) : e.state = old_state /\ e.action = old_action[1]
        /\ result \in {<<1>>, <<-1>>} =>
              Stored(Q, old_state, old_action[1]) = <<1, 2>>
        /\ result = <<0>> => \A e \in Items(Q) : e.value = <<0, 1>>

\* an episode that ended in a draw on a full board
EpisodeDrawn ==
    /\ EpisodeOver
    /\ result = <<0>>
    /\ Count(state, " ") = 0
    /\ \E e \in Items(Q) : e.state = old_state /\ e.action = old_action[1]

LineOf(st, mark) ==
    \/ \E r \in 0..2 : \A c \in 0..2 : st[3 * r + c + 1] = mark
    \/ \E c \in 0..2 : \A r \in 0..2 : st[3 * r + c + 1] = mark
    \/ \A k \in 0..2 : st[4 * k + 1] = mark
    \/ \A k \in 0..2 : st[2 * k + 3] = mark

\* C8: check_winner(state, mark), in both files, is true iff a row, a
\* column or a diagonal holds mark three times; it is false for a state with
\* fewer than 3 cells of mark.
CheckWinnerIffLine ==
    called \in {"check_winner", "pg_check_winner"} =>
        /\ ret[1] <=> LineOf(arg_state, arg_symbol)
        /\ Count(arg_state, arg_symbol) < 3 => ret[1] = FALSE

\* a win by the diagonal 2-4-6 alone, found by the training copy
WinByAntiDiagonal ==
    /\ called = "check_winner"
    /\ ret = <<TRUE>>
    /\ Count(arg_state, arg_symbol) = 3
    /\ arg_state[3] = arg_symbol /\ arg_state[5] = arg_symbol
    /\ arg_state[7] = arg_symbol

NextStateFrame ==
    called = "next_state" =>
        LET new == ret[1]
            a == arg_action[1]
        IN  /\ Len(new) = 9
            /\ new[a + 1] = arg_symbol
            /\ new[a + 1] # " "
            /\ \A i \in 1..9 : i # a + 1 => new[i] = arg_state[i]

\* C9: the state next_state returns has the action's cell equal to mark and
\* every other cell as in the input; the input state is not modified.
NextStateWritesOneCell ==
    []NextStateFrame /\ [][prog = "board" => arg_state' = arg_state]_vars

\* O written to the empty centre of a board that holds other marks
NextStateOnCentre ==
    /\ called = "next_state"
    /\ arg_action = <<4>>
    /\ arg_symbol = "O"
    /\ arg_state[5] = " "
    /\ Count(arg_state, "X") = 3
    /\ ret[1][5] = "O"

Balanced(b) ==
    LET d == Count(b, "X") - Count(b, "O") IN 0 <= d /\ d <= 1

\* C10: every board of a self-play episode and of the interactive loop has
\* 0 <= #X - #O <= 1, and X makes the first move of every game.
BoardsBalancedXFirst ==
    /\ prog = "train" =>
          /\ Balanced(state)
          /\ (state = [i \in 1..9 |-> " "] /\ result = <<>>) => current_symbol = "X"
    /\ prog = "ui" =>
          /\ Balanced(board)
          /\ (board = [i \in 1..9 |-> " "] /\ ~game_over) => current_symbol = "X"
          /\ (~game_over /\ current_symbol = "O") =>
                Count(board, "X") = Count(board, "O") + 1

\* the board just emptied by "New" after a finished game
NewGameStarted ==
    /\ prog = "ui"
    /\ pc = "draw"
    /\ new_game_clicked
    /\ ~game_over
    /\ board = [i \in 1..9 |-> " "]
    /\ current_symbol = "X"

\* the half-move moves[k] has had update_q_value applied to its own pair
MoveUpdated(k) ==
    \E j \in 1..Len(updates) :
        /\ updates[j].state = moves[k].state
        /\ updates[j].action = moves[k].action

\* C11: when an episode has ended, whatever its outcome, every half-move
\* played in it, by X or by O, has had the update applied to its own
\* (pre-move state, action) pair.
EveryHalfMoveUpdated ==
    EpisodeOver => \A k \in 1..Len(moves) : MoveUpdated(k)

\* the update_q_value calls the step has added to the log
NewCalls == SubSeq(updates', Len(updates) + 1, Len(updates'))

\* C12: when the move of the current player completes a line, the calls of
\* that iteration are, in this order, the reward-0 update of the player's
\* previous move if the player has one, the reward +1.0 update of
\* (prev_state, action) -> state, and the reward -1.0 update of the other
\* player's recorded last move -> prev_state if it has one; after the episode
\* has ended no update is made and the table stays as it is.
WinUpdatesInOrder ==
    [][ /\ (prog = "train" /\ result = <<>> /\ result' \in {<<1>>, <<-1>>}) =>
              NewCalls =
                  (IF Count(state, current_symbol) > 0
                   THEN <<[state |-> last_state[current_symbol],
                           action |-> last_action[current_symbol][1],
                           reward |-> <<0, 1>>, new_state |-> state]>>
                   ELSE <<>>)
                  \o <<[state |-> state, action |-> old_action'[1],
                        reward |-> <<1, 1>>, new_state |-> state']>>
                  \o (IF last_state[other_symbol] # None
                      THEN <<[state |-> last_state[other_symbol],
                              action |-> last_action[other_symbol][1],
                              reward |-> <<-1, 1>>, new_state |-> state]>>
                      ELSE <<>>)
        /\ (prog = "train" /\ result # <<>>) => (updates' = updates /\ Q' = Q)
      ]_vars

\* O has won, and the last three calls were the rewards 0, +1 and -1
WonWithThreeUpdates ==
    /\ EpisodeOver
    /\ result = <<-1>>
    /\ LineOf(state, "O")
    /\ Len(updates) >= 3
    /\ updates[Len(updates) - 2].reward = <<0, 1>>
    /\ updates[Len(updates) - 1].reward = <<1, 1>>
    /\ updates[Len(updates) - 1].new_state = state
    /\ updates[Len(updates)].reward = <<-1, 1>>
    /\ updates[Len(updates)].new_state = old_state

\* C13: a half-move that is not the first move of the player who makes it
\* applies the reward-0 update of (last_state[current], last_action[current]),
\* the player's previous move, with next state the board just before the
\* move; a player's first move applies no deferred update; last_state and
\* last_action of the mover are recorded iff the move did not end the game.
DeferredUpdateRule ==
    [][ (prog = "train" /\ state' # state) =>
          LET mover == current_symbol
              before == Len(moves) - 1
          IN  /\ Count(state, mover) = 0 =>
                    /\ last_state[mover] = None
                    /\ NewCalls = <<>>
              /\ Count(state, mover) > 0 =>
                    /\ last_state[mover] = moves[before].state
                    /\ last_action[mover] = <<moves[before].action>>
                    /\ moves[before].symbol = mover
                    /\ Len(NewCalls) >= 1
                    /\ NewCalls[1] = [state |-> moves[before].state,
                                      action |-> moves[before].action,
                                      reward |-> <<0, 1>>, new_state |-> state]
              /\ result' = <<>> =>
                    /\ last_state' = [last_state EXCEPT ![mover] = state]
                    /\ last_action' = [last_action EXCEPT ![mover] = old_action']
              /\ result' # <<>> =>
                    /\ last_state' = last_state
                    /\ last_action' = last_action
      ]_vars

\* O has made its second move, which did not end the game: its first move
\* has had the deferred update and the second move is recorded
SecondMoveOfODeferred ==
    /\ prog = "train"
    /\ result = <<>>
    /\ Len(moves) = 4
    /\ updates[Len(updates)] = [state |-> moves[2].state, action |-> moves[2].action,
                                reward |-> <<0, 1>>, new_state |-> moves[4].state]
    /\ last_state["O"] = moves[4].state
    /\ last_action["O"] = <<moves[4].action>>

\* the value a set of items holds for (st, a), 0.0 when it holds none
StoredIn(items, st, a) ==
    IF \E e \in items : e.state = st /\ e.action = a
    THEN (CHOOSE e \in items : e.state = st /\ e.action = a).value
    ELSE <<0, 1>>

\* the largest stored value over the legal actions of st, 0.0 without one
MaxNext(items, st) ==
    LET vals == {StoredIn(items, st, a) : a \in LegalActions(st)}
    IN  IF vals = {} THEN <<0, 1>>
        ELSE CHOOSE v \in vals : \A w \in vals : ~RLess(v, w)

\* the items after the update rule for (s, a, r, s2): one entry set to
\* old + ALPHA * (r + GAMMA * max_next - old), every other entry kept
RuleApplied(items, s, a, r, s2) ==
    LET old == StoredIn(items, s, a)
        target == RAdd(r, RMul(GAMMA, MaxNext(items, s2)))
        value == RAdd(old, RMul(ALPHA, RSub(target, old)))
    IN  {e \in items : ~(e.state = s /\ e.action = a)}
        \cup {[state |-> s, action |-> a, value |-> value]}

RECURSIVE RuleReplayed(_, _, _)
RuleReplayed(items, calls, k) ==
    IF k > Len(calls) THEN items
    ELSE RuleReplayed(RuleApplied(items, calls[k].state, calls[k].action,
                                  calls[k].reward, calls[k].new_state),
                      calls, k + 1)

\* a call of update_q_value has returned what the rule gives
CallFollowsRule ==
    (prog = "update" /\ called = "update_q_value") =>
        /\ Items(Q) = RuleApplied(Items(preQ), arg_state, arg_action[1],
                                  arg_reward[1], arg_new_state)
        /\ Cardinality(Items(Q)) = Len(Q)

\* C14: update_q_value(s, a, r, s') sets the entry (s, a) to
\* old + ALPHA * (r + GAMMA * max_next - old), old and max_next defaulting to
\* 0.0, max_next taken over the legal actions of s' only, and leaves every
\* other entry as it was; every step of an episode leaves the table equal to
\* the table before it with the update_q_value calls of the step applied, so
\* nothing else changes the table.
UpdateRuleOnly ==
    /\ []CallFollowsRule
    /\ [][prog = "train" =>
            Items(Q') = RuleReplayed(Items(Q), NewCalls, 1)]_vars

\* an update with a stored old value 0.5, reward +1.0 and a largest legal
\* next value 0.9: 0.5 + 0.5 * (1.0 + 0.9 * 0.9 - 0.5) = 1.155
UpdateWithStoredOldAndNext ==
    /\ prog = "update"
    /\ called = "update_q_value"
    /\ arg_reward = <<<<1, 1>>>>
    /\ StoredIn(Items(preQ), arg_state, arg_action[1]) = <<1, 2>>
    /\ MaxNext(Items(preQ), arg_new_state) = <<9, 10>>
    /\ StoredIn(Items(Q), arg_state, arg_action[1]) = <<231, 200>>

\* a self-play episode, called directly or from main
Playing == prog \in {"train", "main"}
InLoop == Playing /\ result = <<>>

\* C15: whenever the loop of play_one_game is entered the board has an empty
\* cell and no complete line, and no value epsilon_greedy_action can return
\* for it is None: the branch "no moves left" is never taken.
NoneNeverSelected ==
    InLoop =>
        /\ Count(state, " ") > 0
        /\ ~LineOf(state, "X")
        /\ ~LineOf(state, "O")
        /\ None \notin epsilon_greedy_action(Q, state, epsilon)
        /\ epsilon_greedy_action(Q, state, epsilon) # {}

\* the loop entered after eight half-moves: the one cell left is offered
LastCellOffered ==
    /\ InLoop
    /\ Len(moves) = 8
    /\ Count(state, " ") = 1
    /\ \E a \in LegalActions(state) :
          epsilon_greedy_action(Q, state, epsilon) = {<<a>>}

\* C16: an episode in progress has played at most 8 half-moves and has a
\* move to make, so its next step can be taken; every step of the loop plays exactly one more half-move on
\* an empty cell; an episode that has returned has played at least 5 and at
\* most 9 half-moves.  So every episode returns within 9 iterations.
EpisodeLength ==
    /\ [](Playing =>
            /\ Len(moves) + Count(state, " ") = 9
            /\ InLoop =>
                  /\ Len(moves) <= 8
                  /\ prog = "train" => epsilon_greedy_action(Q, state, epsilon) # {}
                  /\ prog = "main" => /\ pc = "episode"
                                      /\ explored_actions(Q, state, epsilon) # {}
            /\ result # <<>> => (5 <= Len(moves) /\ Len(moves) <= 9))
    /\ [][(InLoop /\ moves' # <<>>) =>
            /\ Len(moves') = Len(moves) + 1
            /\ Count(state', " ") = Count(state, " ") - 1]_vars

\* an episode that X has won with its third mark, after five half-moves
EpisodeOfFiveMoves ==
    /\ Playing
    /\ result = <<1>>
    /\ Len(moves) = 5
    /\ Count(state, "X") = 3

\* C17: play_one_game returns +1 iff the final board holds a complete line
\* of X, -1 iff it holds a complete line of O, 0 iff it is full without a
\* line; a last move that fills the board and completes a line is a win; the
\* final board never holds lines of both marks.
ResultMatchesFinalBoard ==
    (Playing /\ result # <<>>) =>
        /\ result \in {<<1>>, <<-1>>, <<0>>}
        /\ result = <<1>> <=> LineOf(state, "X")
        /\ result = <<-1>> <=> LineOf(state, "O")
        /\ result = <<0>> <=> /\ Count(state, " ") = 0
                              /\ ~LineOf(state, "X")
                              /\ ~LineOf(state, "O")
        /\ ~(LineOf(state, "X") /\ LineOf(state, "O"))
        /\ (Count(state, " ") = 0 /\ LineOf(state, current_symbol)) =>
              result = <<IF current_symbol = "X" THEN 1 ELSE -1>>

\* the ninth half-move has filled the board and completed a line of X
FullBoardWon ==
    /\ Playing
    /\ result = <<1>>
    /\ Len(moves) = 9
    /\ Count(state, " ") = 0
    /\ LineOf(state, "X")

\* a board that legal alternating play from the empty board reaches and
\* leaves open: X has as many marks as O or one more, no line, an empty cell
\* (the marks of a board without a line can be placed in any alternating
\* order without completing a line on the way)
OpenBoard(b) ==
    /\ Balanced(b)
    /\ ~LineOf(b, "X")
    /\ ~LineOf(b, "O")
    /\ Count(b, " ") > 0

\* C18: starting from an empty table, at every moment of every episode each
\* key (state, action) of the table names an empty cell of state, and state
\* is a non-terminal board reachable by legal alternating play.
KeysAreOpenMoves ==
    Playing =>
        \A e \in Items(Q) :
            /\ e.action \in 0..8
            /\ DOMAIN e.state = 1..9
            /\ e.state[e.action + 1] = " "
            /\ OpenBoard(e.state)

\* main has played all its episodes and the table holds more keys than one
\* episode writes
TableOfSeveralEpisodes ==
    /\ prog = "main"
    /\ episode = MaxEpisodes
    /\ episode > 1
    /\ Len(Q) > 9
    /\ \E e \in Items(Q) : e.value # <<0, 1>>

\* board' is board with the one empty cell i set to mark
MarkPlaced(i, mark) ==
    /\ board[i] = " "
    /\ board' = [board EXCEPT ![i] = mark]

\* C19: in the interactive loop the board changes only in three ways: the
\* user writes X to an empty cell, on the user's turn of a game that is not
\* over; the AI writes O to an empty cell of a game that is not over, when
\* the last mark was the user's (X has one mark more than O) and that move
\* did not end the game; a New-game reset empties the board of a game that is
\* over.  No cell is overwritten and nothing is written while game_over.
MarksOnlyOnEmptyCells ==
    [][(prog = "ui" /\ pc # "start" /\ board' # board) =>
          \/ /\ pc = "events"
             /\ ~game_over
             /\ current_symbol = "X"
             /\ Count(board, "X") = Count(board, "O")
             /\ \E i \in 1..9 : MarkPlaced(i, "X")
          \/ /\ pc = "ai"
             /\ ~game_over
             /\ current_symbol = "O"
             /\ Count(board, "X") = Count(board, "O") + 1
             /\ ~LineOf(board, "X")
             /\ \E i \in 1..9 : MarkPlaced(i, "O")
             /\ current_symbol' = "X"
          \/ /\ pc = "reset"
             /\ game_over
             /\ new_game_clicked
             /\ board' = [i \in 1..9 |-> " "]
             /\ ~game_over'
      ]_vars

\* the AI has answered the user's second move and the game goes on
AIAnsweredSecondMove ==
    /\ prog = "ui"
    /\ pc = "reset"
    /\ ~game_over
    /\ current_symbol = "X"
    /\ Count(board, "X") = 2
    /\ Count(board, "O") = 2

\* the pixel (mx, my) lies in the grid cell of row and col
CellContains(row, col, mx, my) ==
    /\ LEFT_MARGIN + col * CELL_SIZE <= mx
    /\ mx < LEFT_MARGIN + (col + 1) * CELL_SIZE
    /\ TOP_MARGIN + row * CELL_SIZE <= my
    /\ my < TOP_MARGIN + (row + 1) * CELL_SIZE

\* C20: for every pixel of the window get_cell_index returns None or an
\* index of 0..8 that is row*3+col for the row and column, both in 0..2, of
\* the grid cell that contains the pixel.
CellIndexNamesClickedCell ==
    (prog = "pixel" /\ called = "get_cell_index") =>
        \/ ret[1] = None
        \/ /\ ret[1][1] \in 0..8
           /\ \E row \in 0..2, col \in 0..2 :
                 /\ ret[1][1] = row * 3 + col
                 /\ CellContains(row, col, mouse_pos[1], mouse_pos[2])

====
